---- MODULE Spec2Model ----
(***************************************************************************)
(* Command registration and dispatch engine of proxmox-bot:                *)
(*   src/command_decorator.py        the @command decorator and its wrapper *)
(*   src/src/bot/command_handler.py  CommandHandler (registry, parser,      *)
(*                                   help generator, respond)               *)
(*                                                                         *)
(* Representation of Python values.  A str is the sequence of its          *)
(* '_'-separated segments ("vm_reboot" is <<"vm", "reboot">>, "pve1" is     *)
(* <<"pve1">>), so that str.split('_', 1) is computed and not tabulated.    *)
(* None is the empty sequence.  A message is the sequence of its            *)
(* whitespace-separated words.  A response string is the sequence of the    *)
(* pieces its f-string concatenates.  Parameter names are plain strings.    *)
(***************************************************************************)
EXTENDS Naturals, Sequences, FiniteSets

VARIABLES pc, scanned, registry_source, command_functions, commands,
          session_node, dispatch

vars == <<pc, scanned, registry_source, command_functions, commands,
          session_node, dispatch>>

-----------------------------------------------------------------------------
(* Bounds *)

\* longest message, in words
MaxTokens == 4

\* most positional arguments of a direct (keyword) call of a wrapper
MaxArgs == 2

-----------------------------------------------------------------------------
(* Python values *)

None == <<>>

\* bool(v) of a str or None
Truthy(v) == v # <<>> /\ v # <<"">>

Default == <<"default">>

Help == <<"help">>

\* the object get_proxmox_api() returns
ProxmoxAPI == <<"<ProxmoxAPI>">>

\* str.lower() of one segment, over the alphabet of the model
LowerSegment(s) ==
    CASE s = "VM" -> "vm"
      [] s = "HELP" -> "help"
      [] OTHER -> s

\* str.lower()
Lower(s) == [i \in DOMAIN s |-> LowerSegment(s[i])]

EmptyDict == [k \in {} |-> None]

\* d[k] = v
Put(d, k, v) == [x \in DOMAIN d \cup {k} |-> IF x = k THEN v ELSE d[x]]

Range(s) == {s[i] : i \in DOMAIN s}

\* seq[n:] for n >= 0
DropFirst(s, n) == [i \in 1..(IF Len(s) > n THEN Len(s) - n ELSE 0) |-> s[i + n]]

\* all sequences over S of length at most n
RECURSIVE SeqsUpTo(_, _)
SeqsUpTo(S, n) ==
    IF n = 0 THEN {<<>>}
    ELSE LET shorter == SeqsUpTo(S, n - 1)
         IN shorter \cup {Append(s, x) : s \in {t \in shorter : Len(t) = n - 1}, x \in S}

-----------------------------------------------------------------------------
(* Operations: a decorated function is its declared name and its signature *)

Param(n, d) == [name |-> n, has_default |-> d]

Function(name, params) == [name |-> name, params |-> params]

ParamNames(f) == [i \in DOMAIN f.params |-> f.params[i].name]

Declares(f, p) == p \in Range(ParamNames(f))

\* func.__name__.split('_', 1)
func_name_parts(f) ==
    IF Len(f.name) > 1 THEN << <<Head(f.name)>>, Tail(f.name) >> ELSE << f.name >>

\* func.__group__
Group(f) ==
    IF Len(func_name_parts(f)) > 1 THEN func_name_parts(f)[1] ELSE Default

\* func.__command__
Command(f) == func_name_parts(f)[Len(func_name_parts(f))]

P_proxmox == Param("proxmox", FALSE)
P_node == Param("node_name", FALSE)
P_vm == Param("vm_id", FALSE)
P_count == Param("count", FALSE)
P_force == Param("force", TRUE)

\* The operation sets the engine is built from (the concrete operations are
\* supplied by the hosting application; any set of names and signatures).
TypicalSet ==
    << Function(<<"status">>, <<P_proxmox>>),
       Function(<<"reboot">>, <<P_proxmox, P_node, P_vm, P_force>>),
       Function(<<"vm", "reboot">>, <<P_proxmox, P_node, P_vm>>),
       Function(<<"vm", "status">>, <<P_proxmox, P_vm>>) >>

NoDefaultSet ==
    << Function(<<"vm", "reboot">>, <<P_proxmox, P_node, P_vm>>),
       Function(<<"vm", "status">>, <<P_proxmox, P_node>>) >>

DuplicateSet ==
    << Function(<<"default", "status">>, <<P_proxmox>>),
       Function(<<"status">>, <<P_proxmox, P_node>>),
       Function(<<"vm", "status">>, <<P_proxmox, P_vm>>) >>

OtherOrderSet ==
    << Function(<<"status">>, <<P_proxmox, P_vm, P_node>>),
       Function(<<"reboot">>, <<P_proxmox, P_node, P_count, P_vm>>),
       Function(<<"vm", "reboot">>, <<P_proxmox, P_count, P_node, P_vm>>) >>

UpperCaseSet ==
    << Function(<<"status">>, <<P_proxmox>>),
       Function(<<"VM", "status">>, <<P_proxmox, P_node>>) >>

OperationSets == {TypicalSet, NoDefaultSet, DuplicateSet, OtherOrderSet, UpperCaseSet}

\* words a message is made of
Tokens == { <<"help">>, <<"vm">>, <<"VM">>, <<"status">>, <<"reboot">>,
            <<"pve1">>, <<"101">> }

\* values of a direct call's arguments
ArgTokens == { <<"pve1">>, <<"101">> }

\* values SessionConfig.get_node() returns
NodeValues == { None, <<"pve1">> }

Messages == SeqsUpTo(Tokens, MaxTokens)

-----------------------------------------------------------------------------
(* CommandHandler.register_command, register_commands, generate_commands *)

register_command(cf, command_group, command_name, func) ==
    LET group == IF ~Truthy(command_group) THEN Default ELSE command_group
        cf1 == IF group \notin DOMAIN cf THEN Put(cf, group, EmptyDict) ELSE cf
    IN Put(cf1, group, Put(cf1[group], command_name, func))

\* one entry of self.commands: the words of command_format
CommandEntry(group, command_name, func) ==
    LET params == SelectSeq(ParamNames(func), LAMBDA p : p # "proxmox")
    IN [group |-> IF group = Default THEN None ELSE group,
        command |-> command_name,
        params |-> params]

generate_commands(cf) ==
    UNION { {CommandEntry(g, c, cf[g][c]) : c \in DOMAIN cf[g]} : g \in DOMAIN cf }

-----------------------------------------------------------------------------
(* External collaborators: the API client, the identifier resolver *)

\* what one invocation meets: whether get_proxmox_api() connects, whether the
\* resolver resolves, and how the operation body ends.  Combinations that
\* cannot be told apart by any invocation are listed once.
Faults == {"none", "TypeError", "Exception"}

Environments ==
    { e \in [api : BOOLEAN, resolves : BOOLEAN, fault : Faults] :
        /\ (~e.api => e.resolves /\ e.fault = "none")
        /\ (~e.resolves => e.fault = "none") }

get_proxmox_api(env) == IF env.api THEN ProxmoxAPI ELSE None

\* the canonical identifier of raw within scope node_name
Canonical(node_name, vm_id) == <<"#">> \o node_name \o <<":">> \o vm_id

resolve_vm_identifier(node_name, vm_id, env) ==
    IF env.resolves THEN Canonical(node_name, vm_id) ELSE None

\* the value of a parameter filled in by apply_defaults()
DefaultValue == <<"<default>">>

\* str(e) of a fault raised inside an operation body
BodyFaultMessage == <<"boom">>

\* what an operation body returns
BodyResult(f) == << <<"done ">>, f.name >>

-----------------------------------------------------------------------------
(* inspect.signature(func).bind and apply_defaults *)

TooManyPositional == << <<"too many positional arguments">> >>

MultipleValues(p) == << <<"multiple values for argument ">>, <<p>> >>

MissingArgument(p) == << <<"missing a required argument: ">>, <<p>> >>

UnexpectedKeyword(p) == << <<"got an unexpected keyword argument ">>, <<p>> >>

bind(f, args, kwargs) ==
    LET names == ParamNames(f)
        n == Len(names)
        badPos == { i \in 1..Len(args) : i > n \/ names[i] \in DOMAIN kwargs }
        firstBad == CHOOSE i \in badPos : \A j \in badPos : i <= j
        missing == { i \in (Len(args) + 1)..n :
                       names[i] \notin DOMAIN kwargs /\ ~f.params[i].has_default }
        firstMissing == CHOOSE i \in missing : \A j \in missing : i <= j
        unexpected == DOMAIN kwargs \ Range(names)
        bound == [ p \in Range(names) |->
                     LET i == CHOOSE k \in 1..n : names[k] = p
                     IN IF i <= Len(args) THEN args[i]
                        ELSE IF p \in DOMAIN kwargs THEN kwargs[p]
                        ELSE DefaultValue ]
    IN IF badPos # {}
       THEN [ok |-> FALSE,
             error |-> IF firstBad > n THEN TooManyPositional
                       ELSE MultipleValues(names[firstBad]),
             bound |-> EmptyDict]
       ELSE IF missing # {}
       THEN [ok |-> FALSE, error |-> MissingArgument(names[firstMissing]),
             bound |-> EmptyDict]
       ELSE IF unexpected # {}
       THEN [ok |-> FALSE,
             error |-> UnexpectedKeyword(CHOOSE p \in unexpected : TRUE),
             bound |-> EmptyDict]
       ELSE [ok |-> TRUE, error |-> <<>>, bound |-> bound]

-----------------------------------------------------------------------------
(* command.decorator.wrapper *)

ConnectFailure == << <<"Failed to connect to Proxmox API.">> >>

ResolveFailure(vm_id) == << <<"Could not resolve VM identifier: ">>, vm_id >>

TypeErrorResult(f, msg) == << <<"TypeError in ">>, f.name, <<": ">> >> \o msg \o << <<".">> >>

ErrorResult(f, msg) == << <<"Error processing your request in ">>, f.name, <<": ">> >> \o msg

\* the outcome of one call of a wrapper: the string it returns, whether the
\* body ran, with which arguments and which fault it raised, the calls made to
\* the resolver (scope, raw value, result), whether the API was reached
Outcome(response, invoked, bound, resolver_calls, fault) ==
    [response |-> response, invoked |-> invoked, bound |-> bound,
     resolver_calls |-> resolver_calls, fault |-> fault, connected |-> TRUE]

node_name_in_args(f, kwargs) ==
    Declares(f, "node_name") /\ "node_name" \in DOMAIN kwargs

\* faulty variant: the user's first token is taken as node_name even when the
\* Session Context holds a value
InjectNode_PrefersToken(f, session, args, kwargs) ==
    IF Declares(f, "node_name") /\ ~node_name_in_args(f, kwargs)
    THEN IF args # <<>>
         THEN [call_args |-> <<ProxmoxAPI, args[1]>>, args |-> Tail(args)]
         ELSE IF Truthy(session)
         THEN [call_args |-> <<ProxmoxAPI, session>>, args |-> args]
         ELSE [call_args |-> <<ProxmoxAPI>>, args |-> args]
    ELSE [call_args |-> <<ProxmoxAPI>>, args |-> args]

\* faulty variant: the token taken as node_name is not removed from args
InjectNode_NoShift(f, session, args, kwargs) ==
    IF Declares(f, "node_name") /\ ~node_name_in_args(f, kwargs)
    THEN IF Truthy(session)
         THEN [call_args |-> <<ProxmoxAPI, session>>, args |-> args]
         ELSE IF args # <<>>
         THEN [call_args |-> <<ProxmoxAPI, args[1]>>, args |-> args]
         ELSE [call_args |-> <<ProxmoxAPI>>, args |-> args]
    ELSE [call_args |-> <<ProxmoxAPI>>, args |-> args]

\* lines 47-55: call_args and the remaining args after node injection
InjectNode(f, session, args, kwargs) ==
    IF Declares(f, "node_name") /\ ~node_name_in_args(f, kwargs)
    THEN IF Truthy(session)
         THEN [call_args |-> <<ProxmoxAPI, session>>, args |-> args]
         ELSE IF args # <<>>
         THEN [call_args |-> <<ProxmoxAPI, args[1]>>, args |-> Tail(args)]
         ELSE [call_args |-> <<ProxmoxAPI>>, args |-> args]
    ELSE [call_args |-> <<ProxmoxAPI>>, args |-> args]

\* lines 71-78: bind, apply the defaults, run the body
BindAndCall(f, call_args, args, kwargs, env, resolver_calls) ==
    LET b == bind(f, call_args \o args, kwargs)
    IN IF ~b.ok
       THEN Outcome(TypeErrorResult(f, b.error), FALSE, EmptyDict, resolver_calls, "none")
       ELSE CASE env.fault = "none" ->
                   Outcome(BodyResult(f), TRUE, b.bound, resolver_calls, "none")
              [] env.fault = "TypeError" ->
                   Outcome(TypeErrorResult(f, <<BodyFaultMessage>>), TRUE, b.bound,
                           resolver_calls, "TypeError")
              [] OTHER ->
                   Outcome(ErrorResult(f, <<BodyFaultMessage>>), TRUE, b.bound,
                           resolver_calls, "Exception")

\* faulty variant: an unresolved identifier does not abort; the raw value is passed on
ResolveAndCall_IgnoresUnresolved(f, inj, kwargs, env) ==
    LET in_args == node_name_in_args(f, kwargs)
        node_name == IF Len(inj.call_args) > 1 THEN inj.call_args[2] ELSE None
        vm_id == IF ~in_args THEN inj.args[1]
                 ELSE IF "vm_id" \in DOMAIN kwargs THEN kwargs["vm_id"] ELSE None
        resolved == resolve_vm_identifier(node_name, vm_id, env)
        calls == << <<node_name, vm_id, resolved>> >>
    IN IF Declares(f, "vm_id") /\ inj.args # <<>> /\ vm_id # None
       THEN IF resolved = None
            THEN BindAndCall(f, inj.call_args, inj.args, kwargs, env, calls)
            ELSE IF in_args
            THEN BindAndCall(f, inj.call_args, inj.args,
                             Put(kwargs, "vm_id", resolved), env, calls)
            ELSE BindAndCall(f, inj.call_args, <<resolved>> \o Tail(inj.args),
                             kwargs, env, calls)
       ELSE BindAndCall(f, inj.call_args, inj.args, kwargs, env, <<>>)

\* faulty variant: the resolver is always called without a scope
ResolveAndCall_NoScope(f, inj, kwargs, env) ==
    LET in_args == node_name_in_args(f, kwargs)
        node_name == None
        vm_id == IF ~in_args THEN inj.args[1]
                 ELSE IF "vm_id" \in DOMAIN kwargs THEN kwargs["vm_id"] ELSE None
        resolved == resolve_vm_identifier(node_name, vm_id, env)
        calls == << <<node_name, vm_id, resolved>> >>
    IN IF Declares(f, "vm_id") /\ inj.args # <<>> /\ vm_id # None
       THEN IF resolved = None
            THEN Outcome(ResolveFailure(vm_id), FALSE, EmptyDict, calls, "none")
            ELSE IF in_args
            THEN BindAndCall(f, inj.call_args, inj.args,
                             Put(kwargs, "vm_id", resolved), env, calls)
            ELSE BindAndCall(f, inj.call_args, <<resolved>> \o Tail(inj.args),
                             kwargs, env, calls)
       ELSE BindAndCall(f, inj.call_args, inj.args, kwargs, env, <<>>)

\* lines 57-69 and on: resolve vm_id, splice it back, then bind and call
ResolveAndCall(f, inj, kwargs, env) ==
    LET in_args == node_name_in_args(f, kwargs)
        node_name == IF Len(inj.call_args) > 1 THEN inj.call_args[2] ELSE None
        vm_id == IF ~in_args THEN inj.args[1]
                 ELSE IF "vm_id" \in DOMAIN kwargs THEN kwargs["vm_id"] ELSE None
        resolved == resolve_vm_identifier(node_name, vm_id, env)
        calls == << <<node_name, vm_id, resolved>> >>
    IN IF Declares(f, "vm_id") /\ inj.args # <<>> /\ vm_id # None
       THEN IF resolved = None
            THEN Outcome(ResolveFailure(vm_id), FALSE, EmptyDict, calls, "none")
            ELSE IF in_args
            THEN BindAndCall(f, inj.call_args, inj.args,
                             Put(kwargs, "vm_id", resolved), env, calls)
            ELSE BindAndCall(f, inj.call_args, <<resolved>> \o Tail(inj.args),
                             kwargs, env, calls)
       ELSE BindAndCall(f, inj.call_args, inj.args, kwargs, env, <<>>)

wrapper(f, args, kwargs, env, session) ==
    IF get_proxmox_api(env) = None
    THEN [Outcome(ConnectFailure, FALSE, EmptyDict, <<>>, "none") EXCEPT !.connected = FALSE]
    ELSE ResolveAndCall(f, InjectNode(f, session, args, kwargs), kwargs, env)

-----------------------------------------------------------------------------
(* CommandHandler.generate_help_message *)

NoCommandsFound == << <<"No commands found for this group.">> >>

\* what commands_to_markdown renders (the markdown itself is not modelled)
HelpText == << <<"<markdown>">> >>

\* faulty variant: node_name is shown whether or not the Session Context is set
effective_params_AlwaysNode(f, session) ==
    LET param_names == SelectSeq(ParamNames(f),
                                 LAMBDA p : p \notin {"proxmox", "node_name"})
    IN IF Declares(f, "node_name")
       THEN <<"node_name">> \o param_names
       ELSE param_names

\* lines 112-116: the parameters shown for one command
effective_params(f, session) ==
    LET param_names == SelectSeq(ParamNames(f),
                                 LAMBDA p : p \notin {"proxmox", "node_name"})
    IN IF Declares(f, "node_name") /\ ~Truthy(session)
       THEN <<"node_name">> \o param_names
       ELSE param_names

\* lines 118-123: one {"command": ..., "description": ...} of the listing
HelpEntry(group, cmd, f, session) ==
    [prefix |-> IF group # Default THEN group ELSE None,
     command |-> cmd,
     params |-> effective_params(f, session)]

\* the listing: the entries of every group in scope
HelpListing(cf, command_group, session) ==
    UNION { {HelpEntry(g, c, cf[g][c], session) : c \in DOMAIN cf[g]} :
            g \in {h \in DOMAIN cf : ~(Truthy(command_group) /\ h # command_group)} }

generate_help_message(cf, command_group, session) ==
    IF HelpListing(cf, command_group, session) # {} THEN HelpText ELSE NoCommandsFound

-----------------------------------------------------------------------------
(* CommandHandler.parse_command *)

parse_command(cf, parts) ==
    IF parts[1] \in DOMAIN cf /\ Len(parts) > 1
    THEN [raised |-> "none", command_group |-> Lower(parts[1]),
          command |-> parts[2], args |-> DropFirst(parts, 2)]
    ELSE IF Default \notin DOMAIN cf
    THEN [raised |-> "KeyError", command_group |-> Default,
          command |-> None, args |-> <<>>]
    ELSE [raised |-> "none", command_group |-> Default,
          command |-> parts[1], args |-> Tail(parts)]

-----------------------------------------------------------------------------
(* CommandHandler.respond *)

PleaseProvide == << <<"Please provide a command. Type 'help' for a list of commands.">> >>

UnknownCommand == << <<"Unknown command or command group. Type 'help' for a list of commands.">> >>

IncorrectUsage == << <<"Incorrect command usage. Please check the command format and try again.">> >>

NoFunction == Function(None, <<>>)

NoParse == [raised |-> "none", command_group |-> None, command |-> None, args |-> <<>>]

\* a dispatch that did not reach a command function
Reply(message, session, response, listing, parsed) ==
    [kind |-> "respond", message |-> message, kwargs |-> EmptyDict,
     session |-> session, raised |-> parsed.raised, response |-> response,
     listing |-> listing, parsed |-> parsed, func |-> NoFunction,
     args |-> <<>>, invoked |-> FALSE, bound |-> EmptyDict,
     resolver_calls |-> <<>>, fault |-> "none", connected |-> FALSE]

\* a call of command function f
Called(kind, message, session, parsed, f, args, kwargs, out) ==
    [kind |-> kind, message |-> message, kwargs |-> kwargs,
     session |-> session, raised |-> "none", response |-> out.response,
     listing |-> {}, parsed |-> parsed, func |-> f,
     args |-> args, invoked |-> out.invoked, bound |-> out.bound,
     resolver_calls |-> out.resolver_calls, fault |-> out.fault,
     connected |-> out.connected]

respond(cf, message, env, session) ==
    LET parts == message
        help_group == IF Len(parts) > 1 THEN Lower(parts[2]) ELSE None
        parsed == parse_command(cf, parts)
    IN IF parts = <<>>
       THEN Reply(message, session, PleaseProvide, {}, NoParse)
       ELSE IF Lower(parts[1]) = Help
       THEN Reply(message, session, generate_help_message(cf, help_group, session),
                  HelpListing(cf, help_group, session), NoParse)
       ELSE IF parsed.raised # "none"
       THEN Reply(message, session, <<>>, {}, parsed)
       ELSE IF /\ parsed.command_group \in DOMAIN cf
               /\ parsed.command \in DOMAIN cf[parsed.command_group]
       THEN LET f == cf[parsed.command_group][parsed.command]
            IN Called("respond", message, session, parsed, f, parsed.args, EmptyDict,
                      wrapper(f, parsed.args, EmptyDict, env, session))
       ELSE Reply(message, session, UnknownCommand, {}, parsed)

-----------------------------------------------------------------------------
(* The engine as a state machine *)

NoDispatch ==
    [Reply(<<>>, None, <<>>, {}, NoParse) EXCEPT !.kind = "none"]

Registered(cf) == UNION { {cf[g][c] : c \in DOMAIN cf[g]} : g \in DOMAIN cf }

\* keyword arguments of a direct call: some of node_name, vm_id
KeywordArgs ==
    UNION { [names -> ArgTokens] : names \in SUBSET {"node_name", "vm_id"} }

\* CommandHandler.__init__, before register_commands runs
Init ==
    /\ pc = "register"
    /\ registry_source \in OperationSets
    /\ scanned = 0
    /\ command_functions = EmptyDict
    /\ commands = {}
    /\ session_node = None
    /\ dispatch = NoDispatch

\* one iteration of the loop of register_commands
RegisterNext ==
    /\ pc = "register"
    /\ scanned < Len(registry_source)
    /\ LET obj == registry_source[scanned + 1]
       IN command_functions' =
              register_command(command_functions, Group(obj), Command(obj), obj)
    /\ scanned' = scanned + 1
    /\ UNCHANGED <<pc, registry_source, commands, session_node, dispatch>>

\* the end of __init__: generate_commands, the handler is ready
FinishInit ==
    /\ pc = "register"
    /\ scanned = Len(registry_source)
    /\ commands' = generate_commands(command_functions)
    /\ pc' = "ready"
    /\ UNCHANGED <<scanned, registry_source, command_functions, session_node, dispatch>>

\* handler.respond(message), called by send_message
Respond ==
    /\ pc = "ready"
    /\ \E message \in Messages, env \in Environments :
          dispatch' = respond(command_functions, message, env, session_node)
    /\ pc' = "responded"
    /\ UNCHANGED <<scanned, registry_source, command_functions, commands, session_node>>

\* a direct call of a registered command function, keyword arguments included
Call ==
    /\ pc = "ready"
    /\ \E f \in Registered(command_functions), args \in SeqsUpTo(ArgTokens, MaxArgs),
          kwargs \in KeywordArgs, env \in Environments :
          dispatch' = Called("call", <<>>, session_node, NoParse, f, args, kwargs,
                             wrapper(f, args, kwargs, env, session_node))
    /\ pc' = "responded"
    /\ UNCHANGED <<scanned, registry_source, command_functions, commands, session_node>>

\* the response is delivered; the next command is accepted
Return ==
    /\ pc = "responded"
    /\ pc' = "ready"
    /\ dispatch' = NoDispatch
    /\ UNCHANGED <<scanned, registry_source, command_functions, commands, session_node>>

\* the administrative operation that sets or clears the Session Context
SetNode ==
    /\ pc = "ready"
    /\ \E node \in NodeValues : node # session_node /\ session_node' = node
    /\ UNCHANGED <<pc, scanned, registry_source, command_functions, commands, dispatch>>

Next == RegisterNext \/ FinishInit \/ Respond \/ Call \/ Return \/ SetNode

Spec == Init /\ [][Next]_vars

TypeOK ==
    /\ pc \in {"register", "ready", "responded"}
    /\ scanned \in 0..Len(registry_source)
    /\ session_node \in NodeValues

-----------------------------------------------------------------------------
(* Vocabulary of the properties *)

\* the last dispatch reached a command function (a wrapper was called)
Reached == dispatch.kind # "none" /\ dispatch.func # NoFunction

\* all of its arguments were positional, as in every call respond makes
Positional == dispatch.kwargs = EmptyDict

IndexOf(f, p) == CHOOSE k \in DOMAIN f.params : f.params[k].name = p

\* node_name is declared right after the handler parameter
NodeSecond(f) == Len(f.params) >= 2 /\ f.params[2].name = "node_name"

\* vm_id is declared first among the parameters the user types
VmFirst(f) ==
    IF Declares(f, "node_name") THEN Len(f.params) >= 3 /\ f.params[3].name = "vm_id"
    ELSE Len(f.params) >= 2 /\ f.params[2].name = "vm_id"

\* the declaration order the injector's positional conventions assume:
\* (proxmox, [node_name,] [vm_id,] others...)
Conventional(f) ==
    /\ Len(f.params) >= 1 /\ f.params[1].name = "proxmox"
    /\ Declares(f, "node_name") => NodeSecond(f)
    /\ Declares(f, "vm_id") => VmFirst(f)

\* the resolver was asked and reported unresolved
ResolutionFailed ==
    \E i \in DOMAIN dispatch.resolver_calls : dispatch.resolver_calls[i][3] = None

\* the wrapper got as far as binding the arguments
BindingReached == Reached /\ dispatch.connected /\ ~ResolutionFailed

\* the returned string is the wrapper's report of a TypeError
IsTypeErrorResult(f, response) ==
    Len(response) >= 3 /\ SubSeq(response, 1, 3) = << <<"TypeError in ">>, f.name, <<": ">> >>

\* the index, among the caller's positional tokens, of the token that binds
\* to parameter number k of f (0 or less if none does): the handler and an
\* injected context value come first
UserIndex(f, session, kwargs, k) ==
    IF Declares(f, "node_name") /\ Truthy(session) /\ "node_name" \notin DOMAIN kwargs
    THEN k - 2 ELSE k - 1

\* the value the node_name convention yields: the context value if set, else
\* the user's first token; None for an operation without node_name
NodeValue(f, session, args) ==
    IF ~Declares(f, "node_name") THEN None
    ELSE IF Truthy(session) THEN session
    ELSE IF args # <<>> THEN args[1] ELSE None

\* what parameter p receives for the user's token t
ValueFor(p, t, scope) == IF p = "vm_id" THEN Canonical(scope, t) ELSE t

\* the required parameters the user types after node_name
RemainingRequired(f) ==
    SelectSeq(f.params,
              LAMBDA q : ~q.has_default /\ q.name \notin {"proxmox", "node_name"})

-----------------------------------------------------------------------------
(* C1 *)

\* C1: respond always returns a response string and never lets a failure
\* propagate to its caller, for every message, registry and Session Context.
C1_RespondNeverRaises ==
    dispatch.kind = "respond" =>
        dispatch.raised = "none" /\ dispatch.response # <<>>

-----------------------------------------------------------------------------
(* C2 *)

\* C2: registration rejects duplicates: a scan in which two functions derive
\* the same (group, name) never completes, and after registration the lookup
\* of each function's (group, name) returns exactly that function.
C2_DuplicatesRejected ==
    pc # "register" =>
        /\ \A i, j \in DOMAIN registry_source :
              (Group(registry_source[i]) = Group(registry_source[j])
                 /\ Command(registry_source[i]) = Command(registry_source[j])) => i = j
        /\ \A i \in DOMAIN registry_source :
              command_functions[Group(registry_source[i])][Command(registry_source[i])]
                 = registry_source[i]

-----------------------------------------------------------------------------
(* C3 *)

\* C3: if the resolver returns unresolved for a raw identifier X, the body is
\* not invoked in that dispatch and the returned string is the resolution
\* error containing X, whether the node came from the context or the user.
C3_UnresolvedAborts ==
    \A i \in DOMAIN dispatch.resolver_calls :
        dispatch.resolver_calls[i][3] = None =>
            /\ ~dispatch.invoked
            /\ dispatch.response = ResolveFailure(dispatch.resolver_calls[i][2])
            /\ dispatch.resolver_calls[i][2] \in Range(dispatch.response)

\* C3 witness: a dispatch with an empty context, the node typed by the user,
\* in which the resolver reported unresolved
C3_Witness ==
    /\ dispatch.kind = "respond"
    /\ ~Truthy(dispatch.session)
    /\ Len(dispatch.resolver_calls) = 1
    /\ dispatch.resolver_calls[1][1] = <<"pve1">>
    /\ dispatch.resolver_calls[1][3] = None

-----------------------------------------------------------------------------
(* C4 *)

\* the user's tokens all bind, in order, to the parameters after node_name
TokensAfterNode(f, session, args, bound) ==
    \A i \in DOMAIN args :
        i + 2 <= Len(f.params)
          /\ bound[f.params[i + 2].name] \in {args[i], Canonical(session, args[i])}

\* C4 as stated: with the context holding H and node_name not passed by
\* keyword, every operation declaring node_name is invoked with node_name = H
\* and none of the user's tokens is consumed as node_name.
C4_Original ==
    (/\ Reached /\ dispatch.invoked
     /\ Truthy(dispatch.session)
     /\ "node_name" \notin DOMAIN dispatch.kwargs
     /\ Declares(dispatch.func, "node_name"))
    => dispatch.bound["node_name"] = dispatch.session

\* C4 amended: the same, for every operation that declares node_name as its
\* second parameter, right after the handler parameter.
C4_ContextInjected ==
    (/\ Reached /\ dispatch.invoked
     /\ Truthy(dispatch.session)
     /\ "node_name" \notin DOMAIN dispatch.kwargs
     /\ NodeSecond(dispatch.func))
    => /\ dispatch.bound["node_name"] = dispatch.session
       /\ TokensAfterNode(dispatch.func, dispatch.session, dispatch.args, dispatch.bound)

\* C4 witness: "vm reboot 101" with the context set reaches the body
C4_Witness ==
    /\ dispatch.kind = "respond" /\ dispatch.invoked
    /\ Truthy(dispatch.session)
    /\ NodeSecond(dispatch.func)
    /\ Len(dispatch.args) >= 1

-----------------------------------------------------------------------------
(* C5 *)

\* the body ran with the first token as node_name and the following tokens
\* on the remaining required parameters, in order
ShiftedLeft(f, args, bound) ==
    /\ bound["node_name"] = args[1]
    /\ \A j \in DOMAIN RemainingRequired(f) :
          bound[RemainingRequired(f)[j].name]
             = ValueFor(RemainingRequired(f)[j].name, args[j + 1], args[1])

C5_Statement(f) ==
    /\ Len(dispatch.args) = Len(RemainingRequired(f)) + 1 =>
          dispatch.invoked /\ ShiftedLeft(f, dispatch.args, dispatch.bound)
    /\ Len(dispatch.args) = Len(RemainingRequired(f)) =>
          ~dispatch.invoked /\ IsTypeErrorResult(f, dispatch.response)

-----------------------------------------------------------------------------
(* C6 *)

\* the shape of the parameter list help shows for f: never the handler,
\* node_name exactly when declared and the context is empty, and then first,
\* the other declared parameters in declaration order
HelpShape(f, session) ==
    LET shown == effective_params(f, session)
    IN /\ "proxmox" \notin Range(shown)
       /\ "node_name" \in Range(shown) <=> (Declares(f, "node_name") /\ ~Truthy(session))
       /\ "node_name" \in Range(shown) => shown[1] = "node_name"
       /\ SelectSeq(shown, LAMBDA p : p # "node_name")
            = SelectSeq(ParamNames(f), LAMBDA p : p \notin {"proxmox", "node_name"})

\* one token per shown parameter, in the shown order, runs the body with
\* each token on the parameter of that name
AsShown(f) ==
    LET shown == effective_params(f, dispatch.session)
    IN Len(dispatch.args) = Len(shown) =>
         /\ dispatch.invoked
         /\ \A i \in DOMAIN shown :
               dispatch.bound[shown[i]]
                  = ValueFor(shown[i], dispatch.args[i],
                             NodeValue(f, dispatch.session, dispatch.args))

\* C6 as stated: in every context state and for every registered operation,
\* the list help shows is what the injector expects: one token per shown
\* parameter runs the body with each token on the parameter of that name
\* (read with the API reachable and the identifier resolving).
C6_Original ==
    /\ \A f \in Registered(command_functions) : HelpShape(f, session_node)
    /\ (BindingReached /\ Positional) => AsShown(dispatch.func)

\* C6 amended: the same, for operations declared in the conventional order
\* (proxmox, [node_name,] [vm_id,] others), vm_id receiving the canonical
\* identifier of its token.
C6_HelpMatchesDispatch ==
    /\ \A f \in Registered(command_functions) : HelpShape(f, session_node)
    /\ (BindingReached /\ Positional /\ Conventional(dispatch.func))
          => AsShown(dispatch.func)

\* C6 witness: after the context was set, a dispatch typed as help shows it
\* (node_name hidden) reaches the body of an operation declaring node_name
C6_Witness ==
    /\ dispatch.kind = "respond" /\ dispatch.invoked
    /\ Truthy(dispatch.session)
    /\ Conventional(dispatch.func)
    /\ Declares(dispatch.func, "node_name")
    /\ Len(dispatch.args) = Len(effective_params(dispatch.func, dispatch.session))
    /\ Len(dispatch.args) >= 1

-----------------------------------------------------------------------------
(* C7 *)

\* the token of the last dispatch that binds to vm_id, if any
VmTokenIndex ==
    UserIndex(dispatch.func, dispatch.session, dispatch.kwargs,
              IndexOf(dispatch.func, "vm_id"))

\* a positional dispatch supplied a raw value for vm_id
VmTokenSupplied ==
    /\ Reached /\ dispatch.connected /\ Positional
    /\ Declares(dispatch.func, "vm_id")
    /\ VmTokenIndex \in DOMAIN dispatch.args

\* C7 as stated: the resolver is called exactly once, with the current
\* Session Context value as scope and the token that binds to vm_id as raw
\* value, also for operations without node_name and wherever vm_id stands.
C7_Original ==
    VmTokenSupplied =>
        /\ Len(dispatch.resolver_calls) = 1
        /\ dispatch.resolver_calls[1][1] = dispatch.session
        /\ dispatch.resolver_calls[1][2] = dispatch.args[VmTokenIndex]

\* C7 amended: for operations declared in the conventional order the resolver
\* is called exactly once, with the token that binds to vm_id as raw value and
\* as scope the value node_name receives (the context value if set, else the
\* user's first token), None for operations that do not declare node_name.
C7_ResolverCall ==
    (VmTokenSupplied /\ Conventional(dispatch.func)) =>
        /\ Len(dispatch.resolver_calls) = 1
        /\ dispatch.resolver_calls[1][1]
              = NodeValue(dispatch.func, dispatch.session, dispatch.args)
        /\ dispatch.resolver_calls[1][2] = dispatch.args[VmTokenIndex]

\* C7 witness: "vm reboot 101" with the context "pve1" dispatches to
\* vm_reboot and calls the resolver with ("pve1", "101")
C7_Witness ==
    /\ dispatch.kind = "respond"
    /\ dispatch.message = << <<"vm">>, <<"reboot">>, <<"101">> >>
    /\ dispatch.session = <<"pve1">>
    /\ dispatch.func = Function(<<"vm", "reboot">>, <<P_proxmox, P_node, P_vm>>)
    /\ Len(dispatch.resolver_calls) = 1
    /\ dispatch.resolver_calls[1][1] = <<"pve1">>
    /\ dispatch.resolver_calls[1][2] = <<"101">>

-----------------------------------------------------------------------------
(* C8 *)

\* C8: for every registry and non-empty token list, parse_command returns
\* (tokens[0], tokens[1], tokens[2:]) when tokens[0] names a group and a
\* second token exists, else ('default', tokens[0], tokens[1:]) without a
\* parse error; a command not found is answered with the unknown-command
\* message.
C8_ParseRules ==
    (/\ dispatch.kind = "respond"
     /\ dispatch.message # <<>>
     /\ Lower(dispatch.message[1]) # Help)
    => LET tokens == dispatch.message
           rule1 == tokens[1] \in DOMAIN command_functions /\ Len(tokens) > 1
           expected == IF rule1
                       THEN [raised |-> "none", command_group |-> tokens[1],
                             command |-> tokens[2], args |-> DropFirst(tokens, 2)]
                       ELSE [raised |-> "none", command_group |-> Default,
                             command |-> tokens[1], args |-> Tail(tokens)]
       IN /\ dispatch.parsed = expected
          /\ (~rule1 /\ (Default \notin DOMAIN command_functions
                          \/ tokens[1] \notin DOMAIN command_functions[Default]))
                => dispatch.response = UnknownCommand

-----------------------------------------------------------------------------
(* C9 *)

\* C9: a binding mismatch yields the generic usage message, without binder
\* detail, and the body does not run; a fault raised inside the body, of any
\* type, yields the operation-body failure string with the operation's name
\* and the fault's message.
C9_FailureKindsDistinct ==
    /\ (BindingReached /\ ~dispatch.invoked) => dispatch.response = IncorrectUsage
    /\ (Reached /\ dispatch.invoked /\ dispatch.fault # "none")
          => dispatch.response = ErrorResult(dispatch.func, <<BodyFaultMessage>>)

-----------------------------------------------------------------------------
(* C10 *)

\* C10: whenever the body runs and a raw value was supplied for vm_id,
\* positionally or by keyword, vm_id receives the resolver's output for that
\* raw value, never the raw value, and every other supplied argument reaches
\* its parameter unchanged.
C10_CanonicalSpliced ==
    LET f == dispatch.func
        k == IndexOf(f, "vm_id")
        idx == UserIndex(f, dispatch.session, dispatch.kwargs, k)
        by_keyword == "vm_id" \in DOMAIN dispatch.kwargs
        raw == IF by_keyword THEN dispatch.kwargs["vm_id"] ELSE dispatch.args[idx]
    IN (/\ Reached /\ dispatch.invoked
        /\ Declares(f, "vm_id")
        /\ by_keyword \/ idx \in DOMAIN dispatch.args)
       => /\ Len(dispatch.resolver_calls) = 1
          /\ dispatch.resolver_calls[1][2] = raw
          /\ dispatch.bound["vm_id"] = dispatch.resolver_calls[1][3]
          /\ dispatch.bound["vm_id"] # raw
          /\ \A p \in DOMAIN dispatch.kwargs \ {"vm_id"} :
                dispatch.bound[p] = dispatch.kwargs[p]
          /\ \A i \in DOMAIN dispatch.args :
                i # idx => dispatch.bound[f.params[i + (k - idx)].name] = dispatch.args[i]

====
